---- MODULE Spec2Model ----
(***************************************************************************)
(* inadyn cache.c: seeding the DDNS alias records from the per-alias cache *)
(* files (read_cache_file, read_one, nslookup) and writing them back       *)
(* (write_cache_file).                                                     *)
(*                                                                         *)
(* Strings are sequences of one-character strings.  The file system, the   *)
(* resolver and the wall clock are the environment: what they answer to a  *)
(* call is an input of the action that makes the call.                     *)
(***************************************************************************)
EXTENDS Integers, Sequences, FiniteSets, TLC

\* ------------------------------------------------------------------ bounds
\* Calls of the update layer (provider updates and cache writes) in a run.
MaxOps == 2

\* --------------------------------------------------------------- constants
\* sizeof(address): char address[MAX_ADDRESS_LEN], scaled to a small buffer.
MAX_ADDRESS_LEN == 3
\* char path[256]
PATH_SIZE == 256
\* error code of a null context
RC_INVALID_POINTER == 2

Min(a, b) == IF a < b THEN a ELSE b

NL == "\n"

\* Addresses the provider accepts in an update; the longest fills the address
\* buffer (MAX_ADDRESS_LEN - 1 characters and the NUL).
IPs == { <<"1">>, <<"2", "2">> }

\* Numeric hosts the resolver finds.
Hosts == { <<"2", "2">> }

\* ------------------------------------------------------------ configuration
NameA == <<"a">>
NameB == <<"b">>
NameT == <<"t">>

\* Two host names of 240 characters that differ in the last one.
LongLabel == [k \in 1..(PATH_SIZE - 17) |-> "x"]
NameX == LongLabel \o <<"a">>
NameY == LongLabel \o <<"b">>

\* ddns_t after the configuration is loaded: the alias records are zeroed.
NewAlias(n) == [name |-> n, address |-> <<>>, last_update |-> 0]

Group(system, names) ==
    [system |-> [name |-> system],
     alias  |-> [k \in 1..Len(names) |-> NewAlias(names[k])]]

\* The configurations a run starts from: two aliases in one group, a
\* tunnelbroker group after and before a group of another provider, and two
\* aliases with long names in one group.
Configs ==
    { [info |-> << Group("default@dyndns.org", << NameA, NameB >>) >>],
      [info |-> << Group("default@dyndns.org", << NameA >>),
                   Group("ipv6tb@he.net", << NameT >>) >>],
      [info |-> << Group("ipv6tb@he.net", << NameT >>),
                   Group("default@freedns.afraid.org", << NameB >>) >>],
      [info |-> << Group("default@dyndns.org", << NameX, NameY >>) >>] }

info_count(c) == Len(c.info)
alias_count(info) == Len(info.alias)

\* The (i, j) positions of the alias records of context c.
AliasIds(c) ==
    { id \in (1..2) \X (1..2) :
        /\ id[1] <= info_count(c)
        /\ id[2] <= alias_count(c.info[id[1]]) }

Names == { NameA, NameB, NameT, NameX, NameY }

\* ------------------------------------------------------------- C library
\* snprintf(buf, size, ...): the formatted text cut to size - 1 characters.
Snprintf(size, text) == SubSeq(text, 1, Min(Len(text), size - 1))

\* CACHE_FILE with the alias name: /var/run/inadyn/<name>.cache
CACHE_FILE(name) ==
    << "/", "v", "a", "r", "/", "r", "u", "n", "/",
       "i", "n", "a", "d", "y", "n", "/" >> \o name \o
    << ".", "c", "a", "c", "h", "e" >>

CachePath(name) == Snprintf(PATH_SIZE, CACHE_FILE(name))

\* A cache file is known by its path.  The state names a path by the alias
\* name that maps to it (the same one for all names that map to one path).
KeyOf == [name \in Names |-> CHOOSE n \in Names : CachePath(n) = CachePath(name)]
PathKey(name) == KeyOf[name]

Paths == { PathKey(n) : n \in Names }

\* The paths of the aliases of context c: the cache files a run works on.
PathsOf(c) == { PathKey(c.info[id[1]].alias[id[2]].name) : id \in AliasIds(c) }

\* Position of the first newline of text, 0 when it has none.
RECURSIVE NewlineAt(_, _)
NewlineAt(text, k) ==
    IF k > Len(text) THEN 0
    ELSE IF text[k] = NL THEN k
    ELSE NewlineAt(text, k + 1)

\* fgets with a buffer taken one character too short.
FgetsLineShort(size, text) ==
    LET nl  == NewlineAt(text, 1)
        end == IF nl = 0 THEN Len(text) ELSE nl
    IN  SubSeq(text, 1, Min(end, size - 2))

\* fgets(buf, size, fp) on a file holding text, read from its start: at most
\* size - 1 characters, up to and including the first newline.
FgetsLine(size, text) ==
    LET nl  == NewlineAt(text, 1)
        end == IF nl = 0 THEN Len(text) ELSE nl
    IN  SubSeq(text, 1, Min(end, size - 1))

\* fgets returns NULL when it reads nothing (end of file at once).
FgetsOk(text) == Len(text) > 0

\* strncpy(dst, src, n), read back as a string.
Strncpy(n, src) == SubSeq(src, 1, Min(Len(src), n))

\* ---------------------------------------------------------------- state
VARIABLES
    ctx,      \* the ddns_t context: provider groups and their alias records
    files,    \* per-alias cache files, by path
    legacy,   \* the old shared cache file
    call,     \* the last call made
    rc,       \* its return value
    log,      \* the library calls it made, in order
    nopen,    \* FILE handles open
    nops,     \* calls of the update layer so far
    persisted \* by alias name: the address and the time of the last call of
              \* write_cache_file for it that returned 0

vars == << ctx, files, legacy, call, rc, log, nopen, nops, persisted >>

NoFile == [exists |-> FALSE, content |-> <<>>, mtime |-> 0]

\* What the caller of write_cache_file knows it has saved for an alias.
Never == [address |-> <<>>, time |-> 0]
Saved(address, t) == [address |-> address, time |-> t]
NamesOf(c) == { c.info[id[1]].alias[id[2]].name : id \in AliasIds(c) }
File(text, t) == [exists |-> TRUE, content |-> text, mtime |-> t]

\* A library call in the log: the alias name it was made for, whether it
\* succeeded, and the text it produced (getnameinfo's numeric host).  The
\* return of nslookup is logged the same way (ok: it returned 0).
Ev(op, name, ok, out) == [op |-> op, name |-> name, ok |-> ok, out |-> out]
Call(fn, null, id) == [fn |-> fn, null |-> null, id |-> id]

\* Resolver answers: getaddrinfo's error, getnameinfo's error, the host text.
Answers ==
    { [gai |-> 1, ni |-> 0, host |-> <<>>], [gai |-> 0, ni |-> 1, host |-> <<>>] }
    \cup { [gai |-> 0, ni |-> 0, host |-> h] : h \in Hosts }

Init ==
    /\ ctx \in Configs
    /\ files = [p \in PathsOf(ctx) |-> NoFile]
    /\ legacy \in { NoFile, File(<<"1">>, 1) }
    /\ call = Call("none", FALSE, <<>>)
    /\ rc = 0
    /\ log = <<>>
    /\ nopen = 0
    /\ nops = 0
    /\ persisted = [n \in NamesOf(ctx) |-> Never]

\* ---------------------------------------------------------------- seeding
\* The running call: the context and the files it works on, its log and its
\* open handles.
Machine(c, fs, l, n) == [ctx |-> c, files |-> fs, log |-> l, nopen |-> n]

Logged(m, ev) == [m EXCEPT !.log = Append(@, ev)]

\* nslookup returns ret for the alias name: the log keeps the value, which
\* read_one drops.
Returns(m, name, ret) == Logged(m, Ev("nslookup", name, ret = 0, <<>>))

\* nslookup that logs the reply and forgets to store it in the record.
nslookupNoStore(m, i, j, e) ==
    LET alias == m.ctx.info[i].alias[j]
        ans   == e.dns[alias.name]
        m1    == Logged(m, Ev("getaddrinfo", alias.name, ans.gai = 0, <<>>))
    IN  IF ans.gai = 0
        THEN [m |-> Returns(Logged(m1, Ev("getnameinfo", alias.name, ans.ni = 0,
                                          ans.host)),
                            alias.name, 0),
              ret |-> 0]
        ELSE [m |-> Returns(m1, alias.name, 1), ret |-> 1]

\* nslookup that saves the address it found in the alias's cache file.
nslookup_persist(m, i, j, e) ==
    LET alias == m.ctx.info[i].alias[j]
        ans   == e.dns[alias.name]
        m1    == Logged(m, Ev("getaddrinfo", alias.name, ans.gai = 0, <<>>))
    IN  IF ans.gai = 0
        THEN LET m2 == Logged(m1, Ev("getnameinfo", alias.name, ans.ni = 0, ans.host))
             IN  [m   |-> Returns(IF ans.ni = 0
                                  THEN [m2 EXCEPT !.ctx.info[i].alias[j].address =
                                                      Strncpy(MAX_ADDRESS_LEN, ans.host),
                                                  !.files[PathKey(alias.name)] =
                                                      File(Strncpy(MAX_ADDRESS_LEN,
                                                                   ans.host), 1)]
                                  ELSE m2,
                                  alias.name, 0),
                  ret |-> 0]
        ELSE [m |-> Returns(m1, alias.name, 1), ret |-> 1]

\* nslookup(alias): [m, ret].  e.dns[name] is what the resolver answers.
nslookup(m, i, j, e) ==
    LET alias == m.ctx.info[i].alias[j]
        ans   == e.dns[alias.name]
        m1    == Logged(m, Ev("getaddrinfo", alias.name, ans.gai = 0, <<>>))
    IN  IF ans.gai = 0
        THEN LET m2 == Logged(m1, Ev("getnameinfo", alias.name, ans.ni = 0, ans.host))
             IN  [m   |-> Returns(IF ans.ni = 0
                                  THEN [m2 EXCEPT !.ctx.info[i].alias[j].address =
                                                      Strncpy(MAX_ADDRESS_LEN, ans.host)]
                                  ELSE m2,
                                  alias.name, 0),
                  ret |-> 0]
        ELSE [m |-> Returns(m1, alias.name, 1), ret |-> 1]

\* read_one that reads the old shared cache file whenever there is one.
read_one_legacy_first(m, i, j, nonslookup, e) ==
    LET alias == m.ctx.info[i].alias[j]
        m0    == [m EXCEPT !.ctx.info[i].alias[j].last_update = 0,
                           !.ctx.info[i].alias[j].address = <<>>]
        path  == PathKey(alias.name)
        f     == IF legacy.exists THEN legacy ELSE m.files[path]
        fp    == f.exists /\ path \notin e.openFail
        m1    == Logged(m0, Ev("fopen", alias.name, fp, <<>>))
    IN  IF ~fp
        THEN IF nonslookup THEN m1 ELSE nslookup(m1, i, j, e).m
        ELSE LET got == FgetsOk(f.content)
                 st  == path \notin e.statFail
                 m2  == Logged([m1 EXCEPT !.nopen = @ + 1],
                               Ev("fgets", alias.name, got, <<>>))
                 m3  == IF got
                        THEN [m2 EXCEPT !.ctx.info[i].alias[j].address =
                                Strncpy(MAX_ADDRESS_LEN,
                                        FgetsLine(MAX_ADDRESS_LEN, f.content))]
                        ELSE m2
                 m4  == Logged(m3, Ev("fstat", alias.name, st, <<>>))
                 m5  == IF st
                        THEN [m4 EXCEPT !.ctx.info[i].alias[j].last_update = f.mtime]
                        ELSE m4
             IN  Logged([m5 EXCEPT !.nopen = @ - 1], Ev("fclose", alias.name, TRUE, <<>>))

\* read_one that keeps last_update and adds the file's modification time to
\* it (+= for =, and no reset).
read_one_accumulate(m, i, j, nonslookup, e) ==
    LET alias == m.ctx.info[i].alias[j]
        m0    == [m EXCEPT !.ctx.info[i].alias[j].address = <<>>]
        path  == PathKey(alias.name)
        f     == m.files[path]
        fp    == f.exists /\ path \notin e.openFail
        m1    == Logged(m0, Ev("fopen", alias.name, fp, <<>>))
    IN  IF ~fp
        THEN IF nonslookup THEN m1 ELSE nslookup(m1, i, j, e).m
        ELSE LET got == FgetsOk(f.content)
                 st  == path \notin e.statFail
                 m2  == Logged([m1 EXCEPT !.nopen = @ + 1],
                               Ev("fgets", alias.name, got, <<>>))
                 m3  == IF got
                        THEN [m2 EXCEPT !.ctx.info[i].alias[j].address =
                                Strncpy(MAX_ADDRESS_LEN,
                                        FgetsLine(MAX_ADDRESS_LEN, f.content))]
                        ELSE m2
                 m4  == Logged(m3, Ev("fstat", alias.name, st, <<>>))
                 m5  == IF st
                        THEN [m4 EXCEPT !.ctx.info[i].alias[j].last_update = @ + f.mtime]
                        ELSE m4
             IN  Logged([m5 EXCEPT !.nopen = @ - 1], Ev("fclose", alias.name, TRUE, <<>>))

\* read_one that does not take the modification time (the assignment of
\* st.st_mtime left out).
read_one_no_mtime(m, i, j, nonslookup, e) ==
    LET alias == m.ctx.info[i].alias[j]
        m0    == [m EXCEPT !.ctx.info[i].alias[j].last_update = 0,
                           !.ctx.info[i].alias[j].address = <<>>]
        path  == PathKey(alias.name)
        f     == m.files[path]
        fp    == f.exists /\ path \notin e.openFail
        m1    == Logged(m0, Ev("fopen", alias.name, fp, <<>>))
    IN  IF ~fp
        THEN IF nonslookup THEN m1 ELSE nslookup(m1, i, j, e).m
        ELSE LET got == FgetsOk(f.content)
                 st  == path \notin e.statFail
                 m2  == Logged([m1 EXCEPT !.nopen = @ + 1],
                               Ev("fgets", alias.name, got, <<>>))
                 m3  == IF got
                        THEN [m2 EXCEPT !.ctx.info[i].alias[j].address =
                                Strncpy(MAX_ADDRESS_LEN,
                                        FgetsLine(MAX_ADDRESS_LEN, f.content))]
                        ELSE m2
                 m4  == Logged(m3, Ev("fstat", alias.name, st, <<>>))
             IN  Logged([m4 EXCEPT !.nopen = @ - 1], Ev("fclose", alias.name, TRUE, <<>>))

\* read_one without the reset of the record (last_update = 0 and the memset
\* left out).
read_one_keep(m, i, j, nonslookup, e) ==
    LET alias == m.ctx.info[i].alias[j]
        path  == PathKey(alias.name)
        f     == m.files[path]
        fp    == f.exists /\ path \notin e.openFail
        m1    == Logged(m, Ev("fopen", alias.name, fp, <<>>))
    IN  IF ~fp
        THEN IF nonslookup THEN m1 ELSE nslookup(m1, i, j, e).m
        ELSE LET got == FgetsOk(f.content)
                 st  == path \notin e.statFail
                 m2  == Logged([m1 EXCEPT !.nopen = @ + 1],
                               Ev("fgets", alias.name, got, <<>>))
                 m3  == IF got
                        THEN [m2 EXCEPT !.ctx.info[i].alias[j].address =
                                Strncpy(MAX_ADDRESS_LEN,
                                        FgetsLine(MAX_ADDRESS_LEN, f.content))]
                        ELSE m2
                 m4  == Logged(m3, Ev("fstat", alias.name, st, <<>>))
                 m5  == IF st
                        THEN [m4 EXCEPT !.ctx.info[i].alias[j].last_update = f.mtime]
                        ELSE m4
             IN  Logged([m5 EXCEPT !.nopen = @ - 1], Ev("fclose", alias.name, TRUE, <<>>))

\* read_one(alias, nonslookup): the machine after it.
read_one(m, i, j, nonslookup, e) ==
    LET alias == m.ctx.info[i].alias[j]
        m0    == [m EXCEPT !.ctx.info[i].alias[j].last_update = 0,
                           !.ctx.info[i].alias[j].address = <<>>]
        path  == PathKey(alias.name)
        f     == m.files[path]
        fp    == f.exists /\ path \notin e.openFail
        m1    == Logged(m0, Ev("fopen", alias.name, fp, <<>>))
    IN  IF ~fp
        THEN IF nonslookup THEN m1 ELSE nslookup(m1, i, j, e).m
        ELSE LET got == FgetsOk(f.content)
                 st  == path \notin e.statFail
                 m2  == Logged([m1 EXCEPT !.nopen = @ + 1],
                               Ev("fgets", alias.name, got, <<>>))
                 m3  == IF got
                        THEN [m2 EXCEPT !.ctx.info[i].alias[j].address =
                                Strncpy(MAX_ADDRESS_LEN,
                                        FgetsLine(MAX_ADDRESS_LEN, f.content))]
                        ELSE m2
                 m4  == Logged(m3, Ev("fstat", alias.name, st, <<>>))
                 m5  == IF st
                        THEN [m4 EXCEPT !.ctx.info[i].alias[j].last_update = f.mtime]
                        ELSE m4
             IN  Logged([m5 EXCEPT !.nopen = @ - 1], Ev("fclose", alias.name, TRUE, <<>>))

\* The alias loop left at the first alias whose lookup failed.
RECURSIVE AliasLoopStopOnFailure(_, _, _, _, _)
AliasLoopStopOnFailure(m, i, j, nonslookup, e) ==
    IF j > alias_count(m.ctx.info[i]) THEN m
    ELSE CHOOSE r \in { IF \E k \in DOMAIN m1.log :
                               /\ m1.log[k].op = "getaddrinfo"
                               /\ m1.log[k].name = m.ctx.info[i].alias[j].name
                               /\ ~m1.log[k].ok
                        THEN m1
                        ELSE AliasLoopStopOnFailure(m1, i, j + 1, nonslookup, e) :
                           m1 \in { read_one(m, i, j, nonslookup, e) } } : TRUE

\* for (j = 0; j < info->alias_count; j++) read_one(&info->alias[j], nonslookup);
\* (m1 ranges over the one machine read_one leaves.)
RECURSIVE AliasLoop(_, _, _, _, _)
AliasLoop(m, i, j, nonslookup, e) ==
    IF j > alias_count(m.ctx.info[i]) THEN m
    ELSE CHOOSE r \in { AliasLoop(m1, i, j + 1, nonslookup, e) :
                           m1 \in { read_one(m, i, j, nonslookup, e) } } : TRUE

\* The exception compared against the wrong provider name.
NoNsLookupWrongName(info) == info.system.name = "ipv6tb@he.org"

\* Exception for tunnelbroker.net - no name to lookup
NoNsLookup(info) == info.system.name = "ipv6tb@he.net"

\* for (i = 0; i < ctx->info_count; i++) ...
RECURSIVE InfoLoop(_, _, _)
InfoLoop(m, i, e) ==
    IF i > info_count(m.ctx) THEN m
    ELSE CHOOSE r \in { InfoLoop(m1, i + 1, e) :
                           m1 \in { AliasLoop(m, i, 1, NoNsLookup(m.ctx.info[i]), e) } } : TRUE

\* read_cache_file that returns 1 when a lookup of the pass failed.
read_cache_file_propagate(m, null, e) ==
    LET m1 == Logged(m, Ev("res_init", <<>>, TRUE, <<>>))
    IN  IF null
        THEN [m |-> m1, ret |-> RC_INVALID_POINTER]
        ELSE LET m2 == InfoLoop(m1, 1, e)
             IN  [m   |-> m2,
                  ret |-> IF \E k \in DOMAIN m2.log :
                                m2.log[k].op = "getaddrinfo" /\ ~m2.log[k].ok
                          THEN 1 ELSE 0]

\* read_cache_file without the test of its argument.
read_cache_file_unchecked(m, null, e) ==
    [m |-> InfoLoop(Logged(m, Ev("res_init", <<>>, TRUE, <<>>)), 1, e), ret |-> 0]

\* read_cache_file that clears the resolver cache after the loops.
read_cache_file_late(m, null, e) ==
    IF null
    THEN [m |-> Logged(m, Ev("res_init", <<>>, TRUE, <<>>)), ret |-> RC_INVALID_POINTER]
    ELSE [m |-> Logged(InfoLoop(m, 1, e), Ev("res_init", <<>>, TRUE, <<>>)), ret |-> 0]

\* read_cache_file(ctx): [m, ret].  null: the caller passes no context.
read_cache_file(m, null, e) ==
    LET m1 == Logged(m, Ev("res_init", <<>>, TRUE, <<>>))
    IN  IF null
        THEN [m |-> m1, ret |-> RC_INVALID_POINTER]
        ELSE [m |-> InfoLoop(m1, 1, e), ret |-> 0]

\* ---------------------------------------------------------------- writing
\* fprintf(fp, "%s\n", address): the address written as a line.
FprintfLine(address) == Append(address, NL)

\* fprintf(fp, "%s", address): the text put in the file.
Fprintf(address) == address

\* write_cache_file that returns 0 whether the file opened or not.
write_cache_file_quiet(m, i, j, canOpen, t) ==
    LET alias == m.ctx.info[i].alias[j]
        path  == PathKey(alias.name)
        m1    == Logged(m, Ev("fopen", alias.name, canOpen, <<>>))
    IN  IF canOpen
        THEN LET m2 == [m1 EXCEPT !.nopen = @ + 1,
                                  !.files[path] = File(Fprintf(alias.address), t)]
                 m3 == Logged(m2, Ev("fprintf", alias.name, TRUE, <<>>))
             IN  [m   |-> Logged([m3 EXCEPT !.nopen = @ - 1],
                                 Ev("fclose", alias.name, TRUE, <<>>)),
                  ret |-> 0]
        ELSE [m |-> m1, ret |-> 0]

\* write_cache_file that returns without fclose.
write_cache_file_noclose(m, i, j, canOpen, t) ==
    LET alias == m.ctx.info[i].alias[j]
        path  == PathKey(alias.name)
        m1    == Logged(m, Ev("fopen", alias.name, canOpen, <<>>))
    IN  IF canOpen
        THEN LET m2 == [m1 EXCEPT !.nopen = @ + 1,
                                  !.files[path] = File(Fprintf(alias.address), t)]
             IN  [m   |-> Logged(m2, Ev("fprintf", alias.name, TRUE, <<>>)),
                  ret |-> 0]
        ELSE [m |-> m1, ret |-> 1]

\* write_cache_file that opens the file to append (mode "a" for "w").
write_cache_file_append(m, i, j, canOpen, t) ==
    LET alias == m.ctx.info[i].alias[j]
        path  == PathKey(alias.name)
        m1    == Logged(m, Ev("fopen", alias.name, canOpen, <<>>))
    IN  IF canOpen
        THEN LET m2 == [m1 EXCEPT !.nopen = @ + 1,
                                  !.files[path] =
                                      File(m.files[path].content \o
                                           Fprintf(alias.address), t)]
                 m3 == Logged(m2, Ev("fprintf", alias.name, TRUE, <<>>))
             IN  [m   |-> Logged([m3 EXCEPT !.nopen = @ - 1],
                                 Ev("fclose", alias.name, TRUE, <<>>)),
                  ret |-> 0]
        ELSE [m |-> m1, ret |-> 1]

\* write_cache_file(alias): [m, ret].  canOpen: fopen(path, "w") succeeds;
\* t: the second the file system stamps the file with.
write_cache_file(m, i, j, canOpen, t) ==
    LET alias == m.ctx.info[i].alias[j]
        path  == PathKey(alias.name)
        m1    == Logged(m, Ev("fopen", alias.name, canOpen, <<>>))
    IN  IF canOpen
        THEN LET m2 == [m1 EXCEPT !.nopen = @ + 1,
                                  !.files[path] = File(Fprintf(alias.address), t)]
                 m3 == Logged(m2, Ev("fprintf", alias.name, TRUE, <<>>))
             IN  [m   |-> Logged([m3 EXCEPT !.nopen = @ - 1],
                                 Ev("fclose", alias.name, TRUE, <<>>)),
                  ret |-> 0]
        ELSE [m |-> m1, ret |-> 1]

\* ---------------------------------------------------------------- actions
\* The names a pass asks the resolver about when the opens in openFail fail:
\* those of the aliases outside the no-lookup groups whose file does not open.
Asked(openFail) ==
    { n \in Names :
        /\ \E id \in AliasIds(ctx) :
              /\ ctx.info[id[1]].alias[id[2]].name = n
              /\ ~NoNsLookup(ctx.info[id[1]])
        /\ ~(files[PathKey(n)].exists /\ PathKey(n) \notin openFail) }

NoAnswer == [gai |-> 1, ni |-> 0, host |-> <<>>]

Env(openFail, statFail, dns) ==
    [openFail |-> openFail, statFail |-> statFail, dns |-> dns]

QuietEnv == Env({}, {}, [n \in Names |-> NoAnswer])

Existing == { p \in DOMAIN files : files[p].exists }

\* The state after a call that left machine r.m and returned r.ret.
Returned(fn, null, id, r) ==
    /\ ctx' = r.m.ctx
    /\ files' = r.m.files
    /\ log' = r.m.log
    /\ nopen' = r.m.nopen
    /\ rc' = r.ret
    /\ call' = Call(fn, null, id)
    /\ legacy' = legacy

Seed(null, e) ==
    /\ \E r \in { read_cache_file(Machine(ctx, files, <<>>, nopen), null, e) } :
          Returned("read_cache_file", null, <<>>, r)
    /\ nops' = nops
    /\ persisted' = persisted

\* The caller notes the address it passed and the time, when the call of
\* write_cache_file for alias id of context c returned 0 at time t.
Remembered(c, id, ret, t) ==
    persisted' =
        IF ret = 0
        THEN [persisted EXCEPT ![c.info[id[1]].alias[id[2]].name] =
                 Saved(c.info[id[1]].alias[id[2]].address, t)]
        ELSE persisted

\* A seeding pass, at startup or at a restart.  The environment's answers: a
\* file that does not exist cannot fail to open, only an open file is passed
\* to fstat, and the resolver is free in what it answers when asked.
ReadCacheFile ==
    \/ Seed(TRUE, QuietEnv)
    \/ \E o \in SUBSET Existing : \E s \in SUBSET (Existing \ o) :
         \E d \in [Asked(o) -> Answers] :
            Seed(FALSE, Env(o, s, [n \in Names |->
                                     IF n \in Asked(o) THEN d[n] ELSE NoAnswer]))

\* The wall clock, in seconds: it has moved on by one at each call of the
\* update layer.
Clock == nops + 1

\* write_cache_file called on an alias record as it stands.
WriteCacheFile ==
    \E id \in AliasIds(ctx) : \E canOpen \in BOOLEAN :
      \E t \in { Clock } :
        /\ nops < MaxOps
        /\ nops' = nops + 1
        /\ \E r \in { write_cache_file(Machine(ctx, files, <<>>, nopen),
                                       id[1], id[2], canOpen, t) } :
              /\ Returned("write_cache_file", FALSE, id, r)
              /\ Remembered(ctx, id, r.ret, t)

\* The update layer: the provider accepted address ip for the alias; the
\* record takes it and write_cache_file is called at once.
ProviderUpdate ==
    \E id \in AliasIds(ctx) : \E ip \in IPs : \E canOpen \in BOOLEAN :
      \E t \in { Clock } :
        /\ nops < MaxOps
        /\ nops' = nops + 1
        /\ \E c \in { [ctx EXCEPT !.info[id[1]].alias[id[2]].address = ip] } :
             \E r \in { write_cache_file(Machine(c, files, <<>>, nopen),
                                         id[1], id[2], canOpen, t) } :
                /\ Returned("update", FALSE, id, r)
                /\ Remembered(c, id, r.ret, t)

Next == ReadCacheFile \/ WriteCacheFile \/ ProviderUpdate

Spec == Init /\ [][Next]_vars

\* ------------------------------------------------------------- properties
AliasAt(c, id) == c.info[id[1]].alias[id[2]]
GroupOf(c, id) == c.info[id[1]]
FileOf(name) ==
    IF PathKey(name) \in DOMAIN files THEN files[PathKey(name)] ELSE NoFile

\* The last call was a seeding pass over the context.
Seeded == call.fn = "read_cache_file" /\ ~call.null

\* The calls of op for alias name in log l, and whether one ended ok.
Events(l, op, name) == { k \in DOMAIN l : l[k].op = op /\ l[k].name = name }
Did(l, op, name, ok) == \E k \in Events(l, op, name) : l[k].ok = ok

\* The last call wrote the cache file of alias call.id.
WroteOk == call.fn \in { "write_cache_file", "update" } /\ rc = 0

\* A step that seeds right after a successful write.
SeedAfterWrite == WroteOk /\ call'.fn = "read_cache_file" /\ ~call'.null

\* C1 as stated: a successful write of address A for alias X followed by a
\* seed leaves X with address A and last_update the modification time the
\* write stamped, whatever the cache entry held before.
RoundTripAlways ==
    [][ SeedAfterWrite =>
          LET x == AliasAt(ctx, call.id)
          IN  /\ AliasAt(ctx', call.id).address = x.address
              /\ AliasAt(ctx', call.id).last_update = FileOf(x.name).mtime ]_vars

\* C1, amended: a successful write of address A for alias X followed by a
\* seed in which X's cache file opens and fstat on it succeeds leaves X with
\* address A and last_update the modification time the write stamped.
RoundTripWhenRead ==
    [][ ( /\ SeedAfterWrite
          /\ Did(log', "fopen", AliasAt(ctx, call.id).name, TRUE)
          /\ Did(log', "fstat", AliasAt(ctx, call.id).name, TRUE) ) =>
          LET x == AliasAt(ctx, call.id)
          IN  /\ AliasAt(ctx', call.id).address = x.address
              /\ AliasAt(ctx', call.id).last_update = FileOf(x.name).mtime ]_vars

\* A seeded alias holds the provider's address and the time of the second
\* call of the update layer, both read back from its cache file.
RoundTripWitness ==
    /\ Seeded
    /\ \E id \in AliasIds(ctx) :
          LET x == AliasAt(ctx, id)
          IN  /\ FileOf(x.name).exists
              /\ Did(log, "fstat", x.name, TRUE)
              /\ x.address \in IPs
              /\ x.address = FileOf(x.name).content
              /\ x.last_update = 2
              /\ FileOf(x.name).mtime = 2

\* C2 as stated: after a seeding pass every alias whose cache file opened has
\* the file's content as address and the file's modification time as
\* last_update, and the resolver was not asked about it, in a no-hostname
\* group or not.
CacheHitAuthoritative ==
    Seeded =>
      \A id \in AliasIds(ctx) :
        LET x == AliasAt(ctx, id)
        IN  Did(log, "fopen", x.name, TRUE) =>
              /\ x.address = FileOf(x.name).content
              /\ x.last_update = FileOf(x.name).mtime
              /\ Events(log, "getaddrinfo", x.name) = {}

\* C2, amended: after a seeding pass every alias whose cache file opened has
\* the file's content as address, the file's modification time as
\* last_update when fstat succeeded and 0 when it failed, and the resolver
\* was not asked about it, in a no-hostname group or not.
CacheHitUnlessStatFails ==
    Seeded =>
      \A id \in AliasIds(ctx) :
        LET x == AliasAt(ctx, id)
        IN  Did(log, "fopen", x.name, TRUE) =>
              /\ x.address = FileOf(x.name).content
              /\ x.last_update = IF Did(log, "fstat", x.name, TRUE)
                                 THEN FileOf(x.name).mtime ELSE 0
              /\ Events(log, "getaddrinfo", x.name) = {}

\* An alias of the tunnelbroker group seeded from its cache file.
CacheHitWitness ==
    /\ Seeded
    /\ \E id \in AliasIds(ctx) :
          LET x == AliasAt(ctx, id)
          IN  /\ NoNsLookup(GroupOf(ctx, id))
              /\ Did(log, "fopen", x.name, TRUE)
              /\ Did(log, "fstat", x.name, TRUE)
              /\ x.address = <<"2", "2">>
              /\ x.last_update = FileOf(x.name).mtime

\* C3: after a seeding pass an alias with no cache file, outside the
\* no-hostname groups, whose name the resolver found and converted to numeric
\* text, has that text as address and last_update 0.
FallbackResolves ==
    Seeded =>
      \A id \in AliasIds(ctx) :
        LET x == AliasAt(ctx, id)
        IN  ( /\ ~FileOf(x.name).exists
              /\ ~NoNsLookup(GroupOf(ctx, id)) ) =>
              \A k \in Events(log, "getnameinfo", x.name) :
                 log[k].ok => x.address = log[k].out /\ x.last_update = 0

FallbackWitness ==
    /\ Seeded
    /\ \E id \in AliasIds(ctx) :
          LET x == AliasAt(ctx, id)
          IN  /\ ~FileOf(x.name).exists
              /\ Did(log, "getaddrinfo", x.name, TRUE)
              /\ Did(log, "getnameinfo", x.name, TRUE)
              /\ x.address \in Hosts
              /\ x.last_update = 0

\* C4: after a seeding pass an alias of a no-hostname group (provider
\* "ipv6tb@he.net") with no cache file has an empty address and last_update
\* 0, and the resolver was called zero times for it.
NoHostnameExempt ==
    Seeded =>
      \A id \in AliasIds(ctx) :
        LET x == AliasAt(ctx, id)
        IN  ( /\ GroupOf(ctx, id).system.name = "ipv6tb@he.net"
              /\ ~FileOf(x.name).exists ) =>
              /\ x.address = <<>>
              /\ x.last_update = 0
              /\ Cardinality(Events(log, "getaddrinfo", x.name)) = 0

\* A tunnelbroker alias without a cache file was visited by a pass that did
\* ask the resolver about the alias of the other group.
NoHostnameWitness ==
    /\ Seeded
    /\ \E id \in AliasIds(ctx) :
          /\ GroupOf(ctx, id).system.name = "ipv6tb@he.net"
          /\ ~FileOf(AliasAt(ctx, id).name).exists
          /\ Did(log, "fopen", AliasAt(ctx, id).name, FALSE)
    /\ \E k \in DOMAIN log : log[k].op = "getaddrinfo"

\* The answers the environment gave in the pass that left log l.
LogEnv(l) ==
    Env({ PathKey(n) : n \in { n \in Names : FileOf(n).exists /\ Did(l, "fopen", n, FALSE) } },
        { PathKey(n) : n \in { n \in Names : Did(l, "fstat", n, FALSE) } },
        [n \in Names |->
            IF Did(l, "getaddrinfo", n, TRUE)
            THEN [gai |-> 0,
                  ni |-> IF Did(l, "getnameinfo", n, TRUE) THEN 0 ELSE 1,
                  host |-> l[CHOOSE k \in Events(l, "getnameinfo", n) : TRUE].out]
            ELSE NoAnswer])

\* The context a pass over the present files leaves when the environment
\* answers e.
PassOver(e) == read_cache_file(Machine(ctx, files, <<>>, 0), FALSE, e).m.ctx

\* id2 comes after id in the order of the pass.
Later(id, id2) == id2[1] > id[1] \/ (id2[1] = id[1] /\ id2[2] > id[2])

\* The resolver failed on name n in the pass that left log l.
LookupFailed(l, n) == Did(l, "getaddrinfo", n, FALSE) \/ Did(l, "getnameinfo", n, FALSE)

\* C5: in a seeding pass a resolution failure for one alias does not change
\* the outcome for a later alias, in the same or a later group: each later
\* alias ends as it would have, had the resolver found the earlier name.
FailureIsolated ==
    Seeded =>
      \A id \in AliasIds(ctx) :
        LookupFailed(log, AliasAt(ctx, id).name) =>
          \A h \in Hosts :
            \A alt \in { PassOver([LogEnv(log) EXCEPT !.dns[AliasAt(ctx, id).name] =
                                      [gai |-> 0, ni |-> 0, host |-> h]]) } :
              /\ AliasAt(alt, id).address = h
              /\ \A id2 \in AliasIds(ctx) :
                    Later(id, id2) => AliasAt(alt, id2) = AliasAt(ctx, id2)

\* The lookup of the first alias failed and the next alias of the group got
\* its address from the resolver.
FailureIsolatedWitness ==
    /\ Seeded
    /\ \E id \in AliasIds(ctx), id2 \in AliasIds(ctx) :
          /\ Later(id, id2)
          /\ Did(log, "getaddrinfo", AliasAt(ctx, id).name, FALSE)
          /\ Did(log, "getnameinfo", AliasAt(ctx, id2).name, TRUE)
          /\ AliasAt(ctx, id2).address \in Hosts

\* C6: a seeding pass over a context visits every alias of every group and
\* returns 0, whatever cache misses, unreadable files and resolution
\* failures there are.
SeedingSucceeds ==
    Seeded =>
      /\ rc = 0
      /\ \A id \in AliasIds(ctx) :
            Cardinality(Events(log, "fopen", AliasAt(ctx, id).name)) = 1

\* A pass that returned 0 with a cache miss, a file that would not open and
\* a failed lookup.
SeedingSucceedsWitness ==
    /\ Seeded
    /\ rc = 0
    /\ \E n \in Names : ~FileOf(n).exists /\ Did(log, "fopen", n, FALSE)
    /\ \E n \in Names : FileOf(n).exists /\ Did(log, "fopen", n, FALSE)
    /\ \E n \in Names : LookupFailed(log, n)

\* A step that seeds right after a seeding pass.
SeedAfterSeed == Seeded /\ call'.fn = "read_cache_file" /\ ~call'.null

\* C7 as stated: a second seeding pass right after a first, with no cache
\* file changed in between, leaves every alias with the address and
\* last_update the first pass left.
ReseedIdempotent == [][ SeedAfterSeed => ctx' = ctx ]_vars

\* C7, amended: a second seeding pass right after a first, with no cache file
\* changed in between and with the same outcome of every library call (the
\* same files opening, the same fstat results, the same resolver answers),
\* leaves every alias with the address and last_update the first pass left.
ReseedSameAnswers == [][ (SeedAfterSeed /\ log' = log) => ctx' = ctx ]_vars

\* A seeded state with one alias read from its cache file and one found by
\* the resolver, where a second pass with the same answers changes nothing.
ReseedWitness ==
    /\ Seeded
    /\ \E n \in Names : Did(log, "fstat", n, TRUE) /\ FileOf(n).content \in IPs
    /\ \E n \in Names : Did(log, "getnameinfo", n, TRUE)
    /\ PassOver(LogEnv(log)) = ctx

\* C8: seeding an alias with no per-alias cache file while the old shared
\* cache file exists reads address and modification time from the old file
\* into the alias and removes the old file.
LegacyMigrated ==
    [][ ( /\ call'.fn = "read_cache_file" /\ ~call'.null
          /\ legacy.exists
          /\ \E id \in AliasIds(ctx) : ~FileOf(AliasAt(ctx, id).name).exists ) =>
          /\ ~legacy'.exists
          /\ \E id \in AliasIds(ctx) :
                /\ ~FileOf(AliasAt(ctx, id).name).exists
                /\ AliasAt(ctx', id).address = legacy.content
                /\ AliasAt(ctx', id).last_update = legacy.mtime ]_vars

\* C9 as stated: when an alias has a per-alias cache file and the old shared
\* cache file exists too, seeding leaves the alias with the address and
\* last_update of the per-alias file.
LegacyPrecedence ==
    Seeded =>
      \A id \in AliasIds(ctx) :
        LET x == AliasAt(ctx, id)
        IN  (legacy.exists /\ FileOf(x.name).exists) =>
              /\ x.address = FileOf(x.name).content
              /\ x.last_update = FileOf(x.name).mtime

\* C9, amended: when an alias has a per-alias cache file and the old shared
\* cache file exists too, and the per-alias file opens and fstat on it
\* succeeds, seeding leaves the alias with the address and last_update of
\* the per-alias file.
LegacyPrecedenceWhenRead ==
    Seeded =>
      \A id \in AliasIds(ctx) :
        LET x == AliasAt(ctx, id)
        IN  ( /\ legacy.exists /\ FileOf(x.name).exists
              /\ Did(log, "fopen", x.name, TRUE)
              /\ Did(log, "fstat", x.name, TRUE) ) =>
              /\ x.address = FileOf(x.name).content
              /\ x.last_update = FileOf(x.name).mtime

\* Both files exist and differ in content and time; the alias has what the
\* per-alias file holds.
LegacyPrecedenceWitness ==
    /\ Seeded
    /\ legacy.exists
    /\ \E id \in AliasIds(ctx) :
          LET x == AliasAt(ctx, id)
          IN  /\ FileOf(x.name).exists
              /\ FileOf(x.name).content # legacy.content
              /\ FileOf(x.name).mtime # legacy.mtime
              /\ x.address = FileOf(x.name).content
              /\ x.last_update = FileOf(x.name).mtime

\* C10: read_cache_file called without a context returns
\* RC_INVALID_POINTER, which is not the success value 0, and in that call no
\* alias record is modified, no cache file is opened and no hostname is
\* looked up.
NullContextAborts ==
    [][ (call'.fn = "read_cache_file" /\ call'.null) =>
          /\ rc' = RC_INVALID_POINTER
          /\ rc' # 0
          /\ ctx' = ctx
          /\ \A k \in DOMAIN log' : log'[k].op \notin { "fopen", "fgets", "fstat", "getaddrinfo" } ]_vars

\* The call without a context returned while an alias held an address and a
\* cache file was there to read.
NullContextWitness ==
    /\ call.fn = "read_cache_file" /\ call.null
    /\ rc = RC_INVALID_POINTER
    /\ \E id \in AliasIds(ctx) : AliasAt(ctx, id).address # <<>>
    /\ \E n \in Names : FileOf(n).exists

\* The last call was a write of the cache file of alias call.id, by
\* write_cache_file alone or right after a provider update.
Wrote == call.fn \in { "write_cache_file", "update" }

\* C11: write_cache_file returns a failure value exactly when the alias's
\* cache file cannot be opened for writing, whatever the call before it did;
\* a failed call changes no cache file and no alias record, and a call that
\* succeeds changes the cache file of its own alias only.
WriterFailuresContained ==
    [][ Wrote' =>
          LET x == AliasAt(ctx', call'.id)
          IN  /\ (rc' # 0) <=> Did(log', "fopen", x.name, FALSE)
              /\ rc' # 0 =>
                    /\ files' = files
                    /\ legacy' = legacy
                    /\ call'.fn = "write_cache_file" => ctx' = ctx
                    /\ \A id \in AliasIds(ctx) :
                          id # call'.id => AliasAt(ctx', id) = AliasAt(ctx, id)
                    /\ x.last_update = AliasAt(ctx, call'.id).last_update
              /\ rc' = 0 =>
                    files' = [files EXCEPT ![PathKey(x.name)] =
                                              File(x.address, Clock)] ]_vars

\* The write for one alias failed (the record holds the address the provider
\* took and there is no cache file for it) and the next call, for another
\* alias, wrote that alias's cache file.
WriterFailuresWitness ==
    /\ Wrote /\ rc = 0 /\ nops = 2
    /\ FileOf(AliasAt(ctx, call.id).name).mtime = 2
    /\ \E id \in AliasIds(ctx) :
          /\ id # call.id
          /\ AliasAt(ctx, id).address \in IPs \ Hosts
          /\ ~FileOf(AliasAt(ctx, id).name).exists

\* C12 as stated: after a seeding pass an alias with last_update 0 has had
\* neither a cache record read from disk nor its name resolved.
ZeroMeansNothingKnown ==
    Seeded =>
      \A id \in AliasIds(ctx) :
        LET x == AliasAt(ctx, id)
        IN  x.last_update = 0 =>
              /\ ~Did(log, "fgets", x.name, TRUE)
              /\ ~Did(log, "getnameinfo", x.name, TRUE)

\* C12, amended: after a seeding pass an alias with last_update 0 has not
\* had, in that pass, an fstat of its opened cache file that succeeded with
\* a modification time other than 0; it may hold an address all the same.
ZeroMeansNoMtime ==
    Seeded =>
      \A id \in AliasIds(ctx) :
        LET x == AliasAt(ctx, id)
        IN  x.last_update = 0 =>
              (Did(log, "fstat", x.name, TRUE) => FileOf(x.name).mtime = 0)

\* After a pass one alias has last_update 0 and the resolver's address, and
\* another has the modification time of its cache file.
ZeroMeansWitness ==
    /\ Seeded
    /\ \E id \in AliasIds(ctx) :
          /\ AliasAt(ctx, id).last_update = 0
          /\ AliasAt(ctx, id).address \in Hosts
          /\ Did(log, "fopen", AliasAt(ctx, id).name, FALSE)
    /\ \E id \in AliasIds(ctx) :
          /\ AliasAt(ctx, id).last_update # 0
          /\ Did(log, "fstat", AliasAt(ctx, id).name, TRUE)

\* C13: a seeding pass creates no cache file and changes the content and the
\* modification time of none, also when it takes an address from the
\* resolver; the cache files change in calls of write_cache_file only.
OnlyWriterWrites ==
    [][ /\ call'.fn = "read_cache_file" => (files' = files /\ legacy' = legacy)
        /\ files' # files => Wrote' ]_vars

\* A pass took an address from the resolver for an alias that has no cache
\* file after it, and read another alias's cache file, which is as written.
OnlyWriterWitness ==
    /\ Seeded
    /\ \E id \in AliasIds(ctx) :
          /\ Did(log, "getnameinfo", AliasAt(ctx, id).name, TRUE)
          /\ AliasAt(ctx, id).address \in Hosts
          /\ ~FileOf(AliasAt(ctx, id).name).exists
    /\ \E id \in AliasIds(ctx) :
          /\ Did(log, "fgets", AliasAt(ctx, id).name, TRUE)
          /\ FileOf(AliasAt(ctx, id).name) = File(<<"1">>, 1)

\* The handles the last call opened and those it closed.
Opened(l) == { k \in DOMAIN l : l[k].op = "fopen" /\ l[k].ok }
Closed(l) == { k \in DOMAIN l : l[k].op = "fclose" }

\* C14: when read_cache_file and write_cache_file have returned, every file
\* handle the call opened has been closed, on every path (open failure,
\* empty file, fstat failure, success): no cache-file handle is open after
\* any sequence of seeding passes and writes.
NoHandleOutlives ==
    /\ nopen = 0
    /\ Cardinality(Opened(log)) = Cardinality(Closed(log))
    /\ \A k \in Opened(log) :
          \E c \in Closed(log) : c > k /\ log[c].name = log[k].name

\* A pass found one cache file empty (fgets read nothing) and could not
\* fstat another, and no handle is open after it.
NoHandleWitness ==
    /\ Seeded
    /\ nopen = 0
    /\ \E n \in Names : Did(log, "fgets", n, FALSE)
    /\ \E n \in Names : Did(log, "fgets", n, TRUE) /\ Did(log, "fstat", n, FALSE)

\* Context c with every alias record holding the address a and the time t.
Holding(c, a, t) ==
    [info |-> [i \in DOMAIN c.info |->
        [c.info[i] EXCEPT !.alias =
            [j \in DOMAIN c.info[i].alias |->
                [c.info[i].alias[j] EXCEPT !.address = a, !.last_update = t]]]]]

\* The context a pass over the present files leaves when it starts from the
\* records of c and the environment answers e.
PassFrom(c, e) == read_cache_file(Machine(c, files, <<>>, 0), FALSE, e).m.ctx

\* C15: what a seeding pass leaves does not depend on what the alias records
\* held before it: the pass that ran, a pass from zeroed records and a pass
\* from records full of old values, against the same cache files, provider
\* names and answers, leave the same address and last_update in every
\* alias; an alias whose file did not open and whose name was not resolved
\* (lookup failed or not made) is left empty and zero.
SeedIgnoresMemory ==
    Seeded =>
      /\ PassFrom(Holding(ctx, <<>>, 0), LogEnv(log)) = ctx
      /\ PassFrom(Holding(ctx, <<"9">>, 7), LogEnv(log)) = ctx
      /\ \A id \in AliasIds(ctx) :
            LET x == AliasAt(ctx, id)
            IN  ( /\ Did(log, "fopen", x.name, FALSE)
                  /\ ~Did(log, "getnameinfo", x.name, TRUE) ) =>
                  x.address = <<>> /\ x.last_update = 0

\* A pass left empty and zero an alias whose cache file, holding the address
\* it was updated to, did not open and whose lookup failed, and an alias of
\* the tunnelbroker group without a cache file; the pass from records full of
\* old values leaves the same.
SeedIgnoresMemoryWitness ==
    /\ Seeded
    /\ \E id \in AliasIds(ctx) :
          LET x == AliasAt(ctx, id)
          IN  /\ FileOf(x.name).content \in IPs
              /\ Did(log, "fopen", x.name, FALSE)
              /\ LookupFailed(log, x.name)
              /\ x.address = <<>> /\ x.last_update = 0
    /\ \E id \in AliasIds(ctx) :
          LET x == AliasAt(ctx, id)
          IN  /\ NoNsLookup(GroupOf(ctx, id))
              /\ Did(log, "fopen", x.name, FALSE)
              /\ x.address = <<>> /\ x.last_update = 0
    /\ Holding(ctx, <<"9">>, 7) # ctx
    /\ PassFrom(Holding(ctx, <<"9">>, 7), LogEnv(log)) = ctx

\* C16: nslookup returns its failure value when the lookup fails (an error,
\* or no result) and when the conversion of the first result to numeric
\* text fails, and returns success only when it has stored a numeric address
\* in the alias record.
ResolverReportsFailure ==
    Seeded =>
      \A id \in AliasIds(ctx) :
        LET x == AliasAt(ctx, id)
        IN  \A k \in Events(log, "nslookup", x.name) :
              /\ Did(log, "getaddrinfo", x.name, FALSE) => ~log[k].ok
              /\ Did(log, "getnameinfo", x.name, FALSE) => ~log[k].ok
              /\ log[k].ok => ( /\ Did(log, "getnameinfo", x.name, TRUE)
                                /\ x.address \in Hosts )

\* C17: in every seeding pass res_init is called exactly once, however many
\* provider groups and aliases there are, and before the first hostname
\* lookup of the pass.
ResInitOnceFirst ==
    Seeded =>
      /\ Cardinality({ k \in DOMAIN log : log[k].op = "res_init" }) = 1
      /\ log[1].op = "res_init"
      /\ \A k \in DOMAIN log :
            log[k].op = "getaddrinfo" =>
              \E r \in 1..(k - 1) : log[r].op = "res_init"

\* A pass over two aliases that looked up both names after its one res_init.
ResInitWitness ==
    /\ Seeded
    /\ Cardinality({ k \in DOMAIN log : log[k].op = "getaddrinfo" }) = 2
    /\ Cardinality({ k \in DOMAIN log : log[k].op = "res_init" }) = 1
    /\ log[1].op = "res_init"

\* C18: when read_cache_file is called without a context the error is
\* returned before any other step of the pass: no process-wide effect, the
\* reset of the resolver cache (res_init) included, has happened when the
\* call returns.
NullContextImmediate ==
    (call.fn = "read_cache_file" /\ call.null) =>
      /\ rc = RC_INVALID_POINTER
      /\ \A k \in DOMAIN log : log[k].op # "res_init"
      /\ log = <<>>

\* C19: the cache entries of two aliases are one only if their names are
\* equal, whatever the length of the names: when write_cache_file is called
\* for alias X, every alias Y of another name has another cache path, and
\* the content and the modification time of Y's cache entry, which a later
\* seeding of Y reads, are left as they were.
CacheEntriesDisjoint ==
    [][ \A idx \in AliasIds(ctx), idy \in AliasIds(ctx) :
          LET x == AliasAt(ctx, idx).name
              y == AliasAt(ctx, idy).name
          IN  (x # y /\ Wrote' /\ call'.id = idx) =>
                /\ CachePath(x) # CachePath(y)
                /\ FileOf(y)' = FileOf(y) ]_vars

\* The last successful save to the cache path of alias name: of the saves
\* for the names that share the path, the one made last.
SavedAtPath(name) ==
    LET same == { n \in DOMAIN persisted : CachePath(n) = CachePath(name) }
    IN  persisted[CHOOSE n \in same :
                    \A o \in same : persisted[o].time <= persisted[n].time]

====
